---- MODULE Spec2Model ----
(***************************************************************************)
(* TiRex offline weights: the offline-mode helpers of src/tirex/offline.py *)
(* (setup_offline_env, get_weights_path, is_offline_mode), the diagnostic  *)
(* check_weights.py and the download script setup_offline_weights.py,      *)
(* over a small filesystem and the process environment.                    *)
(*                                                                         *)
(* A path string is the sequence of its components; "" is <<>>.  A leading  *)
(* "~" component is the home shorthand that os.path.expanduser replaces.   *)
(* "weights" abbreviates ".cache/tirex/weights" and "hub" abbreviates the  *)
(* registry's "models--<id>/snapshots/<rev>" directory.  An optional value *)
(* (str | None) is a set with at most one element: {} is None.             *)
(***************************************************************************)
EXTENDS Integers, Sequences, FiniteSets, TLC

VARIABLES
    fs,       \* the filesystem: node -> [k: absent|dir|file|special, d: file content]
    environ,  \* os.environ's TIREX_WEIGHTS_PATH slot: {} unset, {p} set to p
    dotenv,   \* the content of the file ".env" of the working directory: {} no file
    last,     \* the most recent call of the program and what it returned
    log       \* the calls of one scripted run, in order (ScenarioSpec only)

(***************************************************************************)
(* Three specifications share these variables.  Spec runs the offline      *)
(* module and the diagnostic against a filesystem that changes under them; *)
(* ProvisionSpec runs the download script against the same filesystem;     *)
(* ScenarioSpec is one scripted run of diagnostic, download, diagnostic.   *)
(* The outside world's actions cover what the other component does to the  *)
(* filesystem: setup_offline_env only makes directories, and the download  *)
(* script only makes directories and writes regular files.                 *)
(***************************************************************************)

vars == <<fs, environ, dotenv, last, log>>

\* Largest file, in bytes, that is placed at a canonical path from outside.
MaxSize == 2

(***************************************************************************)
(* Paths                                                                   *)
(***************************************************************************)
Home == <<"home">>

\* "~/.cache/tirex/weights", as written in the source
DefaultWeightsStr == <<"~", "weights">>

\* Path.home() / ".cache" / "tirex" / "weights"
DefaultDir == Home \o <<"weights">>

CustomDir == <<"data">>

CkptName == "model.ckpt"

\* os.path.join(dir, "model.ckpt"), Path / "model.ckpt"
Join(dir, name) == dir \o <<name>>

\* Path.home() / ".cache" / "tirex" / "weights" / "model.ckpt"
default_weights == Join(DefaultDir, CkptName)

WeightDirs == {DefaultDir, CustomDir}

\* Where the registry client keeps the download under cache_dir.  The
\* snapshot directory "hub" is the client's own: it exists exactly when the
\* file in it does, and is not a node of its own.
HubFile(dir) == dir \o <<"hub", CkptName>>

\* A directory in place of the default model.ckpt can hold a model.ckpt.
Nodes ==
    {DefaultDir, default_weights, Join(default_weights, CkptName),
     HubFile(DefaultDir),
     CustomDir, Join(CustomDir, CkptName), HubFile(CustomDir)}

\* The strings callers pass and the environment may hold.
PathStrings ==
    {<<>>, DefaultWeightsStr, DefaultDir, default_weights, CustomDir}

None == {}

Some(x) == {x}

The(opt) == CHOOSE x \in opt : TRUE

OptPaths == {None} \cup {Some(p) : p \in PathStrings}

\* os.path.expanduser: a leading "~" becomes the home directory
expanduser(p) ==
    IF p # <<>> /\ Head(p) = "~" THEN Home \o Tail(p) ELSE p

Parent(p) == SubSeq(p, 1, Len(p) - 1)

(***************************************************************************)
(* Filesystem                                                              *)
(***************************************************************************)
Absent == [k |-> "absent", d |-> <<>>]

Dir == [k |-> "dir", d |-> <<>>]

Special == [k |-> "special", d |-> <<>>]

File(data) == [k |-> "file", d |-> data]

\* A file of n bytes that did not come from the registry.
Junk(n) == [i \in 1..n |-> 0]

\* What os.stat gives for a path string: "" is ENOENT, the home directory
\* exists, an unexpanded "~/..." names nothing.
Stat(f, p) ==
    IF p = Home THEN Dir
    ELSE IF p \in Nodes THEN f[p]
    ELSE Absent

\* os.path.exists, Path.exists
PathExists(f, p) == Stat(f, p).k # "absent"

\* Path.is_dir
IsDir(f, p) == Stat(f, p).k = "dir"

\* Path.is_file
IsFile(f, p) == Stat(f, p).k = "file"

\* Path.stat().st_size of a regular file
StSize(f, p) == Len(Stat(f, p).d)

IsPrefix(p, q) == Len(p) <= Len(q) /\ SubSeq(q, 1, Len(p)) = p

\* Whether the directory holding node n exists: a one-component path lies
\* in the root directory.
ParentIsDir(f, n) ==
    \/ Len(n) = 1
    \/ IF n \in {HubFile(d) : d \in WeightDirs}
       THEN IsDir(f, Parent(Parent(n)))
       ELSE IsDir(f, Parent(n))

\* A node exists only inside an existing directory.
TreeOK(f) ==
    \A n \in Nodes : f[n].k # "absent" => ParentIsDir(f, n)

EmptyFs == [n \in Nodes |-> Absent]

\* rm -rf n
RemoveTree(f, n) == [m \in Nodes |-> IF IsPrefix(n, m) THEN Absent ELSE f[m]]

\* Writing a regular file at n, replacing what the file held.
WriteFile(f, n, data) == [f EXCEPT ![n] = File(data)]

\* Path(p).mkdir(parents=True, exist_ok=True).  Path("") is ".", which
\* exists.  An existing non-directory on the way raises (FileExistsError,
\* NotADirectoryError).
RECURSIVE MkdirP(_, _)
MkdirP(f, p) ==
    IF p = <<>> \/ p = Home THEN [raised |-> FALSE, fs |-> f]
    ELSE IF p \notin Nodes THEN [raised |-> TRUE, fs |-> f]
    ELSE IF f[p].k = "dir" THEN [raised |-> FALSE, fs |-> f]
    ELSE IF f[p].k # "absent" THEN [raised |-> TRUE, fs |-> f]
    ELSE LET up == IF Len(p) = 1 THEN [raised |-> FALSE, fs |-> f]
                   ELSE MkdirP(f, Parent(p))
         IN  IF up.raised THEN [raised |-> TRUE, fs |-> f]
             ELSE [raised |-> FALSE, fs |-> [up.fs EXCEPT ![p] = Dir]]

(***************************************************************************)
(* Call records                                                            *)
(***************************************************************************)
\* No call yet, or the world outside has changed things since the last one.
NoCall ==
    [op |-> "none", path |-> None, flag |-> FALSE, ret |-> "None",
     env |-> None, model_id |-> "", dir |-> <<>>, fetch |-> "none", attempts |-> 0,
     err |-> None, entry |-> Absent, stored |-> None, again |-> FALSE, default_exists |-> FALSE, env_status |-> "none",
     imported |-> FALSE, loader_called |-> FALSE, after |-> "none",
     restored |-> FALSE]

\* A call of the offline module: its argument, its flag and its result.
\* env is the slot as the call found it, dir the path the call worked on.
Call(op, path, flag, ret) ==
    [NoCall EXCEPT !.op = op, !.path = path, !.flag = flag, !.ret = ret]

(***************************************************************************)
(* src/tirex/offline.py                                                    *)
(***************************************************************************)
\* A resolver that prefers the environment slot to the default.
ResolveWeightsPath_EnvFirst(weights_path) ==
    IF weights_path # None THEN expanduser(The(weights_path))
    ELSE IF environ # None /\ The(environ) # <<>> THEN expanduser(The(environ))
    ELSE expanduser(DefaultWeightsStr)

\* setup_offline_env, lines 42-45: the path the call works on
ResolveWeightsPath(weights_path) ==
    IF weights_path = None THEN expanduser(DefaultWeightsStr)
    ELSE expanduser(The(weights_path))

\* A setup that clears the slot when it refuses the path.
SetupOfflineEnvResult_ClearOnRefusal(f, env, weights_path, create_if_missing) ==
    LET path == ResolveWeightsPath(weights_path)
    IN  IF ~PathExists(f, path)
        THEN IF create_if_missing
             THEN LET m == MkdirP(f, path)
                  IN  IF m.raised
                      THEN [fs |-> f, environ |-> env, ret |-> "raise",
                            path |-> path]
                      ELSE [fs |-> m.fs, environ |-> Some(path), ret |-> "True",
                            path |-> path]
             ELSE [fs |-> f, environ |-> None, ret |-> "False", path |-> path]
        ELSE [fs |-> f, environ |-> Some(path), ret |-> "True", path |-> path]

\* A setup that publishes the path before it has looked at it.
SetupOfflineEnvResult_PublishFirst(f, env, weights_path, create_if_missing) ==
    LET path == ResolveWeightsPath(weights_path)
    IN  IF ~PathExists(f, path)
        THEN IF create_if_missing
             THEN LET m == MkdirP(f, path)
                  IN  IF m.raised
                      THEN [fs |-> f, environ |-> Some(path), ret |-> "raise",
                            path |-> path]
                      ELSE [fs |-> m.fs, environ |-> Some(path), ret |-> "True",
                            path |-> path]
             ELSE [fs |-> f, environ |-> Some(path), ret |-> "False",
                   path |-> path]
        ELSE [fs |-> f, environ |-> Some(path), ret |-> "True", path |-> path]

\* setup_offline_env: the new filesystem, the new slot and the result
SetupOfflineEnvResult(f, env, weights_path, create_if_missing) ==
    LET path == ResolveWeightsPath(weights_path)
    IN  IF ~PathExists(f, path)
        THEN IF create_if_missing
             THEN LET m == MkdirP(f, path)
                  IN  IF m.raised
                      THEN [fs |-> f, environ |-> env, ret |-> "raise",
                            path |-> path]
                      ELSE [fs |-> m.fs, environ |-> Some(path), ret |-> "True",
                            path |-> path]
             ELSE [fs |-> f, environ |-> env, ret |-> "False", path |-> path]
        ELSE [fs |-> f, environ |-> Some(path), ret |-> "True", path |-> path]

setup_offline_env(weights_path, create_if_missing) ==
    LET r == SetupOfflineEnvResult(fs, environ, weights_path, create_if_missing)
    IN  /\ fs' = r.fs
        /\ environ' = r.environ
        /\ last' = [Call("setup_offline_env", weights_path, create_if_missing,
                         r.ret)
                       EXCEPT !.env = environ, !.dir = r.path,
                              !.restored = (last.op = "removed")]
        /\ UNCHANGED <<dotenv, log>>

\* get_weights_path: os.getenv("TIREX_WEIGHTS_PATH")
GetWeightsPathResult(env) == env

\* A call made right after the path a successful setup_offline_env had
\* published was removed is marked `again`, with that path as dir.
AfterRemoval(call) ==
    IF last.op = "removed" THEN [call EXCEPT !.again = TRUE, !.dir = last.dir]
    ELSE call

\* A call made right after a setup_offline_env, with nothing in between,
\* carries that call's result as `after`, its flag, the slot it found as env
\* and the path it worked on as dir; `restored` tells that this
\* setup_offline_env came right after the removal of the path a successful
\* setup_offline_env had published.
AfterEnable(call) ==
    IF last.op = "setup_offline_env"
    THEN [call EXCEPT !.after = last.ret, !.flag = last.flag,
                      !.env = last.env, !.dir = last.dir,
                      !.restored = last.restored]
    ELSE call

get_weights_path ==
    /\ last' = AfterEnable(AfterRemoval(Call("get_weights_path",
                                 GetWeightsPathResult(environ), FALSE, "value")))
    /\ UNCHANGED <<fs, environ, dotenv, log>>

\* Python truth of a str | None
Truthy(opt) == opt # None /\ The(opt) # <<>>

\* An is_offline_mode that trusts the slot without looking at the disk.
IsOfflineModeResult_Cached(f, env) ==
    LET weights_path == GetWeightsPathResult(env)
    IN  Truthy(weights_path)

\* is_offline_mode
IsOfflineModeResult(f, env) ==
    LET weights_path == GetWeightsPathResult(env)
    IN  Truthy(weights_path) /\ PathExists(f, The(weights_path))

PyBool(b) == IF b THEN "True" ELSE "False"

is_offline_mode ==
    /\ last' = AfterEnable(AfterRemoval(Call("is_offline_mode", None, FALSE,
                                 PyBool(IsOfflineModeResult(fs, environ)))))
    /\ UNCHANGED <<fs, environ, dotenv, log>>

(***************************************************************************)
(* check_weights.py                                                        *)
(***************************************************************************)
\* check_weights, lines 27-44: what Check 2 reports for the environment path
EnvStatus(f, env) ==
    IF ~Truthy(env) THEN "skipped"
    ELSE LET env_path == The(env)
         IN  IF IsDir(f, env_path)
             THEN IF PathExists(f, Join(env_path, CkptName))
                  THEN "dir_with_ckpt" ELSE "dir_without_ckpt"
             ELSE IF IsFile(f, env_path) THEN "file"
             ELSE "missing"

\* check_weights, line 58: default_weights.exists() or env_path, where a
\* non-empty env_path has become a Path object, which is always true
WeightsFound(f, env) == PathExists(f, default_weights) \/ Truthy(env)

\* check_weights: the call record.  import_ok and load_ok are what the
\* import of tirex and load_model("NX-AI/TiRex") do: succeed or raise.
CheckWeightsResult(f, env, import_ok, load_ok) ==
    LET seen == [NoCall EXCEPT !.op = "check_weights",
                               !.path = env,
                               !.default_exists = PathExists(f, default_weights),
                               !.env_status = EnvStatus(f, env),
                               !.imported = import_ok]
    IN  IF ~import_ok THEN [seen EXCEPT !.ret = "False"]
        ELSE IF WeightsFound(f, env)
        THEN [seen EXCEPT !.loader_called = TRUE, !.ret = PyBool(load_ok)]
        ELSE [seen EXCEPT !.ret = "False"]

check_weights(import_ok, load_ok) ==
    /\ last' = CheckWeightsResult(fs, GetWeightsPathResult(environ),
                                  import_ok, load_ok)
    /\ UNCHANGED <<fs, environ, dotenv, log>>

(***************************************************************************)
(* setup_offline_weights.py                                                *)
(***************************************************************************)
DefaultModelId == "NX-AI/TiRex"

ModelIds == {DefaultModelId, "no/such"}

\* The bytes of model.ckpt in the registry repository NX-AI/TiRex.
Artifact == <<1, 1>>

\* What a download can end in: "ok", or the cause of the exception it raises.
HubOutcomes(model_id) ==
    IF model_id = DefaultModelId THEN {"ok", "network", "auth", "disk_full"}
    ELSE {"not_found"}

\* A download that leaves the bytes it got so far at `where` when it fails.
HubDownload_PartialOnFailure(f, cache_dir, outcome, where) ==
    IF ~ParentIsDir(f, where) \/ f[where].k \notin {"absent", "file"}
    THEN [raised |-> TRUE, cause |-> "os_error", fs |-> f, path |-> None]
    ELSE IF outcome # "ok"
    THEN [raised |-> TRUE, cause |-> outcome,
          fs |-> WriteFile(f, where, <<1>>), path |-> None]
    ELSE [raised |-> FALSE, cause |-> "none",
          fs |-> WriteFile(f, where, Artifact), path |-> Some(where)]

\* hf_hub_download(repo_id, filename="model.ckpt", cache_dir): on "ok" the
\* file is stored at `where` and that path is returned; a location that
\* cannot take a regular file makes the download raise.
HubDownload(f, cache_dir, outcome, where) ==
    IF outcome # "ok" THEN [raised |-> TRUE, cause |-> outcome, fs |-> f, path |-> None]
    ELSE IF ~ParentIsDir(f, where) \/ f[where].k \notin {"absent", "file"}
    THEN [raised |-> TRUE, cause |-> "os_error", fs |-> f, path |-> None]
    ELSE [raised |-> FALSE, cause |-> "none",
          fs |-> WriteFile(f, where, Artifact), path |-> Some(where)]

\* A copy that leaves an existing target file as it is.
Copy2_KeepExisting(f, src, dst) ==
    IF dst \in Nodes /\ IsFile(f, src) /\ ParentIsDir(f, dst)
       /\ f[dst].k = "absent"
    THEN [raised |-> FALSE, fs |-> WriteFile(f, dst, f[src].d)]
    ELSE [raised |-> FALSE, fs |-> f]

\* A copy that opens an existing target for writing and stops there.
Copy2_TruncateExisting(f, src, dst) ==
    IF dst \in Nodes /\ IsFile(f, src) /\ ParentIsDir(f, dst)
       /\ f[dst].k \in {"absent", "file"}
    THEN [raised |-> FALSE,
          fs |-> WriteFile(f, dst, IF f[dst].k = "file" THEN <<>> ELSE f[src].d)]
    ELSE [raised |-> TRUE, fs |-> f]

\* A copy step that is left out.
Copy2_Skip(f, src, dst) == [raised |-> FALSE, fs |-> f]

\* os.path.basename
Basename(p) == p[Len(p)]

\* A copy that replaces only a missing or zero-byte target.
Copy2_OnlyIfInvalid(f, src, dst) ==
    IF dst \in Nodes /\ IsFile(f, src) /\ ParentIsDir(f, dst)
       /\ (f[dst].k = "absent" \/ f[dst] = File(<<>>))
    THEN [raised |-> FALSE, fs |-> WriteFile(f, dst, f[src].d)]
    ELSE [raised |-> FALSE, fs |-> f]

\* A move: the target gets the bytes and the source is gone.
Copy2_Move(f, src, dst) ==
    LET target == IF IsDir(f, dst) THEN Join(dst, Basename(src)) ELSE dst
    IN  IF \/ target \notin Nodes
           \/ ~IsFile(f, src)
           \/ target = src
           \/ ~ParentIsDir(f, target)
           \/ f[target].k \in {"dir", "special"}
        THEN [raised |-> TRUE, fs |-> f]
        ELSE [raised |-> FALSE,
              fs |-> [WriteFile(f, target, f[src].d) EXCEPT ![src] = Absent]]

\* shutil.copy2(src, dst): into dst when dst is a directory; raises on a
\* special file, on a directory in the way and on copying a file to itself
Copy2(f, src, dst) ==
    LET target == IF IsDir(f, dst) THEN Join(dst, Basename(src)) ELSE dst
    IN  IF \/ target \notin Nodes
           \/ ~IsFile(f, src)
           \/ target = src
           \/ ~ParentIsDir(f, target)
           \/ f[target].k \in {"dir", "special"}
        THEN [raised |-> TRUE, fs |-> f]
        ELSE [raised |-> FALSE, fs |-> WriteFile(f, target, f[src].d)]

\* setup_offline_weights, lines 47-50
ResolveCacheDir(cache_dir) ==
    IF cache_dir = None THEN expanduser(DefaultWeightsStr)
    ELSE expanduser(The(cache_dir))

\* setup_offline_weights, line 76: the line written to .env
EnvLine(cache_dir) == <<"TIREX_WEIGHTS_PATH">> \o cache_dir

\* A handler that prints the exception and falls through to the success
\* return.
ExceptHandler_ReportSuccess(call) == [call EXCEPT !.ret = "True", !.err = None]

\* setup_offline_weights, lines 92-94: the handler of every exception of
\* the try block prints the exception and returns False
ExceptHandler(call) == [call EXCEPT !.ret = "False", !.err = None]

\* A script that writes .env as soon as the directory is there, before the
\* download.
SetupOfflineWeightsResult_EnvFileFirst(f, env_file, prev, model_id, cache_dir, create_env_file, outcome, where) ==
    LET dir == ResolveCacheDir(cache_dir)
        standard_path == Join(dir, CkptName)
        made == MkdirP(f, dir)
        written == IF create_env_file THEN Some(EnvLine(dir)) ELSE env_file
        call == [NoCall EXCEPT !.op = "setup_offline_weights",
                               !.path = cache_dir,
                               !.flag = create_env_file,
                               !.model_id = model_id,
                               !.dir = dir,
                               !.entry = Stat(f, standard_path),
                               !.again = /\ prev.op = "setup_offline_weights"
                                         /\ prev.ret = "True"
                                         /\ prev.model_id = model_id
                                         /\ prev.dir = dir]
    IN  IF made.raised
        THEN [fs |-> f, dotenv |-> env_file, call |-> [call EXCEPT !.ret = "raise"]]
        ELSE LET got == HubDownload(made.fs, dir, outcome, where)
                 tried == [call EXCEPT !.attempts = 1, !.fetch = got.cause]
             IN  IF got.raised
                 THEN [fs |-> got.fs, dotenv |-> written,
                       call |-> ExceptHandler(tried)]
                 ELSE LET checkpoint_path == The(got.path)
                          copy == IF checkpoint_path # standard_path
                                  THEN Copy2(got.fs, checkpoint_path, standard_path)
                                  ELSE [raised |-> FALSE, fs |-> got.fs]
                          done == [tried EXCEPT !.fetch = "ok",
                                                !.stored = got.path]
                      IN  IF copy.raised
                          THEN [fs |-> got.fs, dotenv |-> written,
                                call |-> ExceptHandler(done)]
                          ELSE [fs |-> copy.fs, dotenv |-> written,
                                call |-> [done EXCEPT !.ret = "True"]]

\* setup_offline_weights: the new filesystem, the new .env and the call
\* record.  prev is the record of the call before this one.
SetupOfflineWeightsResult(f, env_file, prev, model_id, cache_dir, create_env_file, outcome, where) ==
    LET dir == ResolveCacheDir(cache_dir)
        standard_path == Join(dir, CkptName)
        made == MkdirP(f, dir)
        call == [NoCall EXCEPT !.op = "setup_offline_weights",
                               !.path = cache_dir,
                               !.flag = create_env_file,
                               !.model_id = model_id,
                               !.dir = dir,
                               !.entry = Stat(f, standard_path),
                               !.again = /\ prev.op = "setup_offline_weights"
                                         /\ prev.ret = "True"
                                         /\ prev.model_id = model_id
                                         /\ prev.dir = dir]
    IN  IF made.raised
        THEN [fs |-> f, dotenv |-> env_file, call |-> [call EXCEPT !.ret = "raise"]]
        ELSE LET got == HubDownload(made.fs, dir, outcome, where)
                 tried == [call EXCEPT !.attempts = 1, !.fetch = got.cause]
             IN  IF got.raised
                 THEN [fs |-> got.fs, dotenv |-> env_file,
                       call |-> ExceptHandler(tried)]
                 ELSE LET checkpoint_path == The(got.path)
                          needed == checkpoint_path # standard_path
                          copy == IF needed
                                  THEN Copy2(got.fs, checkpoint_path, standard_path)
                                  ELSE [raised |-> FALSE, fs |-> got.fs]
                          done == [tried EXCEPT !.fetch = "ok",
                                                !.stored = got.path]
                      IN  IF copy.raised
                          THEN [fs |-> got.fs, dotenv |-> env_file,
                                call |-> ExceptHandler(done)]
                          ELSE [fs |-> copy.fs,
                                dotenv |-> IF create_env_file
                                           THEN Some(EnvLine(dir)) ELSE env_file,
                                call |-> [done EXCEPT !.ret = "True"]]

\* The cache directories the script is run with.
CacheDirArgs == {None, Some(CustomDir)}

setup_offline_weights(model_id, cache_dir, create_env_file, outcome, where) ==
    LET r == SetupOfflineWeightsResult(fs, dotenv, last, model_id, cache_dir,
                                       create_env_file, outcome, where)
    IN  /\ fs' = r.fs
        /\ dotenv' = r.dotenv
        /\ last' = r.call
        /\ UNCHANGED <<environ, log>>

\* Where the registry client may store the file under the cache directory
\* cache_dir resolves to.
StorePlaces(cache_dir) ==
    LET dir == ResolveCacheDir(cache_dir)
    IN  {HubFile(dir), Join(dir, CkptName)}

(***************************************************************************)
(* The world outside the program                                           *)
(***************************************************************************)
CkptNodes == {Join(d, CkptName) : d \in WeightDirs}

\* A directory can be made where the weights directories are, and by
\* mistake where the default model.ckpt belongs.
DirNodes == WeightDirs \cup {default_weights}

\* rm -rf of an existing node; the record tells when this removes the path
\* that the call before it, a successful setup_offline_env, published
ExtRemove(n) ==
    /\ fs[n].k # "absent"
    /\ fs' = RemoveTree(fs, n)
    /\ last' = IF /\ last.op = "setup_offline_env"
                  /\ last.ret = "True"
                  /\ IsPrefix(n, last.dir)
               THEN [NoCall EXCEPT !.op = "removed", !.dir = last.dir]
               ELSE NoCall
    /\ UNCHANGED <<environ, dotenv, log>>

\* mkdir of a directory
ExtMkdir(d) ==
    /\ ParentIsDir(fs, d)
    /\ fs[d].k = "absent"
    /\ fs' = [fs EXCEPT ![d] = Dir]
    /\ last' = NoCall
    /\ UNCHANGED <<environ, dotenv, log>>

\* cp of some file (possibly cut short) to a canonical path
ExtPlace(n, size) ==
    /\ ParentIsDir(fs, n)
    /\ fs[n].k \in {"absent", "file"}
    /\ fs[n] # File(Junk(size))
    /\ fs' = WriteFile(fs, n, Junk(size))
    /\ last' = NoCall
    /\ UNCHANGED <<environ, dotenv, log>>

\* a FIFO, socket or device node at a canonical path
ExtSpecial(n) ==
    /\ ParentIsDir(fs, n)
    /\ fs[n].k = "absent"
    /\ fs' = [fs EXCEPT ![n] = Special]
    /\ last' = NoCall
    /\ UNCHANGED <<environ, dotenv, log>>

(***************************************************************************)
(* Specification                                                           *)
(***************************************************************************)
Init ==
    /\ fs = EmptyFs
    /\ environ \in OptPaths
    /\ dotenv = None
    /\ last = NoCall
    /\ log = <<>>

Next ==
    \/ \E w \in OptPaths, c \in BOOLEAN : setup_offline_env(w, c)
    \/ get_weights_path
    \/ is_offline_mode
    \/ \E i \in BOOLEAN, l \in BOOLEAN : check_weights(i, l)
    \/ \E n \in Nodes : ExtRemove(n)
    \/ \E d \in DirNodes : ExtMkdir(d)
    \/ \E n \in CkptNodes, s \in 0..MaxSize : ExtPlace(n, s)
    \/ ExtSpecial(default_weights)

Spec == Init /\ [][Next]_vars

ProvisionInit ==
    /\ fs = EmptyFs
    /\ environ = None
    /\ dotenv = None
    /\ last = NoCall
    /\ log = <<>>

ProvisionNext ==
    \/ \E id \in ModelIds, c \in CacheDirArgs, e \in BOOLEAN :
          \E o \in HubOutcomes(id), w \in StorePlaces(c) :
             setup_offline_weights(id, c, e, o, w)
    \/ \E n \in Nodes : ExtRemove(n)
    \/ \E d \in DirNodes : ExtMkdir(d)
    \/ \E n \in CkptNodes, s \in 0..MaxSize : ExtPlace(n, s)
    \/ ExtSpecial(default_weights)

ProvisionSpec == ProvisionInit /\ [][ProvisionNext]_vars

(***************************************************************************)
(* One scripted run on the default location: resolve the directory,       *)
(* run the diagnostic, download into the directory, run the diagnostic.    *)
(***************************************************************************)
\* What a canonical model.ckpt of the custom directory can be.
CkptStates ==
    {Absent, File(Artifact)} \cup {File(Junk(n)) : n \in 0..MaxSize}

HubStates == {Absent, File(Artifact)}

\* A filesystem from its parts; a missing directory holds nothing.
MakeFs(wdir, whub, ddir, dckpt, dhub) ==
    [n \in Nodes |->
        IF n = DefaultDir THEN IF wdir THEN Dir ELSE Absent
        ELSE IF n = HubFile(DefaultDir) THEN IF wdir THEN whub ELSE Absent
        ELSE IF n = CustomDir THEN IF ddir THEN Dir ELSE Absent
        ELSE IF n = Join(CustomDir, CkptName) THEN IF ddir THEN dckpt ELSE Absent
        ELSE IF n = HubFile(CustomDir) THEN IF ddir THEN dhub ELSE Absent
        ELSE Absent]

\* No explicit path, no environment value, no file at the default location.
ScenarioInit ==
    /\ \E wdir \in BOOLEAN, whub \in HubStates, ddir \in BOOLEAN,
          dckpt \in CkptStates, dhub \in HubStates :
          fs = MakeFs(wdir, whub, ddir, dckpt, dhub)
    /\ environ = None
    /\ dotenv = None
    /\ last = NoCall
    /\ log = <<>>

\* setup_offline_weights, lines 47-48, for a caller who gives no directory
ScnResolve ==
    /\ Len(log) = 0
    /\ last' = [NoCall EXCEPT !.op = "resolve", !.dir = ResolveCacheDir(None)]
    /\ log' = Append(log, last')
    /\ UNCHANGED <<fs, environ, dotenv>>

ScnVerify(import_ok, load_ok) ==
    /\ Len(log) \in {1, 3}
    /\ last' = CheckWeightsResult(fs, GetWeightsPathResult(environ),
                                  import_ok, load_ok)
    /\ log' = Append(log, last')
    /\ UNCHANGED <<fs, environ, dotenv>>

ScnProvision(create_env_file, outcome, where) ==
    /\ Len(log) = 2
    /\ LET r == SetupOfflineWeightsResult(fs, dotenv, last, DefaultModelId,
                                          Some(log[1].dir), create_env_file,
                                          outcome, where)
       IN  /\ fs' = r.fs
           /\ dotenv' = r.dotenv
           /\ last' = r.call
           /\ log' = Append(log, r.call)
    /\ UNCHANGED environ

ScenarioNext ==
    \/ ScnResolve
    \/ \E i \in BOOLEAN, l \in BOOLEAN : ScnVerify(i, l)
    \/ \E e \in BOOLEAN, o \in HubOutcomes(DefaultModelId),
          w \in StorePlaces(Some(DefaultDir)) : ScnProvision(e, o, w)

ScenarioSpec == ScenarioInit /\ [][ScenarioNext]_vars

TypeOK ==
    /\ TreeOK(fs)
    /\ environ \in OptPaths
(***************************************************************************)
(* Properties of the offline module and the diagnostic (Spec)              *)
(***************************************************************************)
IsEnableStep == last'.op = "setup_offline_env"

\* C1: when setup_offline_env is called with create_if_missing=False on a
\* path that does not exist, whatever the TIREX_WEIGHTS_PATH slot held, the
\* call returns False and the slot, the filesystem and .env are as before.
C1_MissingPathNoCreateLeavesState ==
    [][(/\ IsEnableStep
        /\ ~last'.flag
        /\ ~PathExists(fs, ResolveWeightsPath(last'.path)))
       => (/\ last'.ret = "False"
           /\ environ' = environ
           /\ fs' = fs
           /\ dotenv' = dotenv)]_vars

\* A refused call that found the slot holding a value and left it there.
C1_Witness ==
    /\ last.op = "setup_offline_env"
    /\ ~last.flag
    /\ last.ret = "False"
    /\ last.env # None
    /\ environ = last.env
    /\ ~PathExists(fs, last.dir)

\* C2: when setup_offline_env is called with create_if_missing=True on a
\* path that does not exist, the path is a directory afterwards, no
\* model.ckpt has been created in it, the slot holds the path and the call
\* returns True.
C2_MissingPathCreateMakesDirectory ==
    [][(/\ IsEnableStep
        /\ last'.flag
        /\ ~PathExists(fs, ResolveWeightsPath(last'.path)))
       => (/\ last'.ret = "True"
           /\ IsDir(fs', ResolveWeightsPath(last'.path))
           /\ ~PathExists(fs', Join(ResolveWeightsPath(last'.path), CkptName))
           /\ environ' = Some(ResolveWeightsPath(last'.path)))]_vars

\* C3: is_offline_mode returns True exactly when the slot is set and the
\* path it holds exists on the filesystem at the time of the call, and
\* get_weights_path returns what the slot holds, also when that path is gone.
C3_IsOfflineModeRechecksDisk ==
    /\ last.op = "is_offline_mode"
       => (last.ret = "True" <=> (environ # None /\ PathExists(fs, The(environ))))
    /\ last.op = "get_weights_path" => last.path = environ
    /\ (last.op = "is_offline_mode" /\ last.again)
       => (last.ret = "False" /\ environ = Some(last.dir))
    /\ (last.op = "get_weights_path" /\ last.again)
       => last.path = Some(last.dir)

\* The stale state: setup_offline_env published a path, the path was
\* removed, and the next call, is_offline_mode, has returned False while
\* the slot still names the path.
C3_Witness ==
    /\ last.op = "is_offline_mode"
    /\ last.again
    /\ last.ret = "False"
    /\ environ = Some(last.dir)
    /\ ~PathExists(fs, last.dir)

\* The precedence of the written design: explicit argument if given and
\* non-empty, else the environment value if non-empty, else the default.
DesignPrecedence(explicit, env) ==
    expanduser(IF Truthy(explicit) THEN The(explicit)
               ELSE IF Truthy(env) THEN The(env)
               ELSE DefaultWeightsStr)

\* C4 as stated: when an explicit argument or an environment value is set
\* beside the default, the path setup_offline_env works on is the highest
\* non-empty value in the order explicit argument, environment variable,
\* default path.
C4_PrecedenceExplicitEnvDefault ==
    (last.op = "setup_offline_env" /\ (Truthy(last.path) \/ Truthy(last.env)))
    => last.dir = DesignPrecedence(last.path, last.env)

\* C4 amended: the path setup_offline_env works on is the home-expanded
\* explicit argument whenever one is given, empty or not, and the default
\* cache directory otherwise; the environment value is never consulted,
\* and a successful call publishes exactly that path.
C4_ExplicitElseDefault ==
    last.op = "setup_offline_env"
    => /\ last.dir = IF last.path = None THEN DefaultDir
                     ELSE expanduser(The(last.path))
       /\ last.ret = "True" => environ = Some(last.dir)

\* No explicit path and the slot set to another directory: the call took
\* the default cache directory and overwrote the slot with it.
C4_Witness ==
    /\ last.op = "setup_offline_env"
    /\ last.path = None
    /\ Truthy(last.env)
    /\ expanduser(The(last.env)) # DefaultDir
    /\ last.ret = "True"
    /\ environ = Some(DefaultDir)

\* What the written design accepts as a checkpoint: a regular file of more
\* than zero bytes.
VerifierValid(f, p) == IsFile(f, p) /\ StSize(f, p) > 0

ZeroByte(f, p) == IsFile(f, p) /\ StSize(f, p) = 0

\* The file an environment value stands for: model.ckpt in it when it names
\* a directory, the path itself otherwise.
EnvCandidate(f, p) == IF IsDir(f, p) THEN Join(p, CkptName) ELSE p

\* C8: a zero-byte model.ckpt is never taken as found: when the only
\* checkpoint there is, at the default location or behind the environment
\* value (a file path or a directory path), has size zero, check_weights does
\* not go on to the model loader.
C8_ZeroByteNeverFound ==
    (last.op = "check_weights" /\ last.imported)
    => /\ (ZeroByte(fs, default_weights) /\ ~Truthy(environ))
          => ~last.loader_called
       /\ (/\ ~PathExists(fs, default_weights)
           /\ Truthy(environ)
           /\ ZeroByte(fs, EnvCandidate(fs, The(environ))))
          => ~last.loader_called

\* C9: the model loader is invoked only when a checkpoint was found: the
\* default model.ckpt exists, or the environment value names a file or a
\* directory that holds model.ckpt; never on an environment value that names
\* a missing path, something that is neither file nor directory, or a
\* directory without model.ckpt.
C9_LoaderOnlyWhenFound ==
    (last.op = "check_weights" /\ last.loader_called)
    => \/ last.default_exists
       \/ last.env_status \in {"dir_with_ckpt", "file"}

\* The slot is set and is_offline_mode would return False.
Stale(f, env) == env # None /\ ~IsOfflineModeResult(f, env)

\* C11: the offline-mode state goes Unset, Enabled, Enabled-but-Stale,
\* Enabled: no call of setup_offline_env (successful or not),
\* get_weights_path or is_offline_mode, and no change of the filesystem,
\* takes a set slot back to unset; from the stale state a setup_offline_env
\* on an existing path returns True and leaves the slot naming an existing
\* path, and the is_offline_mode that follows returns True.
C11_StaleThenEnabledNeverUnset ==
    [][/\ environ # None => environ' # None
       /\ (/\ Stale(fs, environ)
           /\ IsEnableStep
           /\ PathExists(fs, ResolveWeightsPath(last'.path)))
          => (/\ last'.ret = "True"
              /\ environ' = Some(ResolveWeightsPath(last'.path))
              /\ IsOfflineModeResult(fs', environ'))
       /\ (/\ last.op = "setup_offline_env"
           /\ last.ret = "True"
           /\ ~last.flag
           /\ Stale(fs, last.env)
           /\ last'.op = "is_offline_mode")
          => last'.ret = "True"]_vars

\* The whole cycle: a path was enabled and then removed, setup_offline_env
\* was called on another, existing path while the slot still named the
\* removed one, and the is_offline_mode right after it returned True.
C11_Witness ==
    /\ last.op = "is_offline_mode"
    /\ last.after = "True"
    /\ last.restored
    /\ ~last.flag
    /\ last.env # None
    /\ last.env # environ
    /\ ~PathExists(fs, The(last.env))
    /\ environ = Some(last.dir)
    /\ last.ret = "True"

\* C14: right after a setup_offline_env that returned True, with nothing
\* changed in between, is_offline_mode returns True and get_weights_path
\* returns the home-expanded path that was passed (the default cache
\* directory when none was), whatever the argument was, the empty string
\* with create_if_missing=True included.
C14_EnabledRightAfterEnable ==
    /\ (last.op = "is_offline_mode" /\ last.after = "True")
       => last.ret = "True"
    /\ (last.op = "get_weights_path" /\ last.after = "True")
       => last.path = Some(last.dir)

(***************************************************************************)
(* Properties of the download script (ProvisionSpec)                       *)
(***************************************************************************)
\* The canonical path of the call the record is of.
Canonical(call) == Join(call.dir, CkptName)

FoundValid(call) ==
    /\ call.op = "setup_offline_weights"
    /\ call.ret # "raise"
    /\ call.entry.k = "file"
    /\ Len(call.entry.d) > 0

\* C13 as stated: when setup_offline_weights is run while the canonical path
\* holds a file of more than zero bytes, the download is still attempted,
\* but the copy step leaves the canonical file as it was: the file is
\* replaced only when it is missing or not valid.
C13_ValidCanonicalNotOverwritten ==
    (FoundValid(last) /\ last.stored # Some(Canonical(last)))
    => /\ last.attempts = 1
       /\ fs[Canonical(last)] = last.entry

\* C13 amended: when setup_offline_weights is run while the canonical path
\* holds a file of more than zero bytes, the download is still attempted,
\* and whenever the download succeeds with the file stored somewhere else
\* than the canonical path, the copy step replaces the canonical file with
\* the downloaded bytes, whether the file was valid, zero-byte or missing.
C13_CopyAlwaysOverwrites ==
    /\ FoundValid(last) => last.attempts = 1
    /\ (/\ last.op = "setup_offline_weights"
        /\ last.fetch = "ok"
        /\ last.stored # Some(Canonical(last))
        /\ last.entry.k \in {"absent", "file"})
       => /\ last.ret = "True"
          /\ fs[Canonical(last)] = File(Artifact)

\* A run that found a one-byte file of other content at the canonical path
\* and replaced it with the download.
C13_Witness ==
    /\ last.op = "setup_offline_weights"
    /\ last.ret = "True"
    /\ last.attempts = 1
    /\ last.entry = File(Junk(1))
    /\ last.stored = Some(HubFile(last.dir))
    /\ fs[Canonical(last)] = File(Artifact)
    /\ fs[Canonical(last)] # last.entry

FetchFailed(call) ==
    call.op = "setup_offline_weights" /\ call.attempts > 0 /\ call.fetch # "ok"

\* C7 as stated: when the registry fetch fails, setup_offline_weights hands
\* its caller a FetchError that carries the cause, after one attempt.
C7_FetchErrorCarriesCause ==
    FetchFailed(last)
    => /\ last.ret = "FetchError"
       /\ last.err = Some(last.fetch)
       /\ last.attempts = 1

\* C7 amended: when the registry fetch fails, setup_offline_weights returns
\* the bare False, with no cause in what it returns (the cause is only
\* printed), after exactly one attempt.
C7_FetchFailureReturnsFalse ==
    FetchFailed(last)
    => /\ last.ret = "False"
       /\ last.err = None
       /\ last.attempts = 1

\* A run whose download failed for lack of disk space.
C7_Witness ==
    /\ last.op = "setup_offline_weights"
    /\ last.fetch = "disk_full"
    /\ last.attempts = 1
    /\ last.ret = "False"

\* C15: a setup_offline_weights whose download fails returns False and
\* leaves the canonical model.ckpt and .env exactly as they were; the only
\* thing that differs on the filesystem afterwards is that the cache
\* directory, if it was missing, is now a directory.
C15_FetchFailureLeavesCanonical ==
    [][(last'.op = "setup_offline_weights" /\ FetchFailed(last'))
       => (/\ last'.ret = "False"
           /\ dotenv' = dotenv
           /\ fs'[Canonical(last')] = fs[Canonical(last')]
           /\ IsDir(fs', last'.dir)
           /\ \A n \in Nodes :
                 fs'[n] # fs[n]
                 => (n = last'.dir /\ fs[n] = Absent /\ fs'[n] = Dir))]_vars

\* A failed run that was asked to write .env: the one-byte file it found at
\* the canonical path is still there, and .env still names the directory
\* of an earlier run.
C15_Witness ==
    /\ FetchFailed(last)
    /\ last.ret = "False"
    /\ last.flag
    /\ last.entry = File(Junk(1))
    /\ fs[Canonical(last)] = last.entry
    /\ dotenv # None
    /\ dotenv # Some(EnvLine(last.dir))

C10_ResolveVerifyProvisionVerify ==
    /\ Len(log) >= 1 => log[1].dir = DefaultDir
    /\ Len(log) >= 2
       => /\ ~log[2].default_exists
          /\ ~log[2].loader_called
          /\ log[2].ret = "False"
    /\ (Len(log) >= 3 /\ log[3].ret = "True")
       => VerifierValid(fs, default_weights)
    /\ (Len(log) >= 4 /\ log[3].ret = "True")
       => /\ log[4].default_exists
          /\ StSize(fs, default_weights) > 0
          /\ log[4].imported => log[4].loader_called

\* The whole run, with the download and the second diagnostic succeeding.
C10_Witness ==
    /\ Len(log) = 4
    /\ log[1].dir = DefaultDir
    /\ log[2].ret = "False"
    /\ log[3].ret = "True"
    /\ log[3].entry = Absent
    /\ log[4].ret = "True"

====
